---- MODULE Spec2Model ----
(***************************************************************************)
(* Knowledge-base preparation scripts of the sakhee repository:            *)
(*   split_ingredient_substitutes.py  parse_sections, create_file_content, *)
(*                                    main                                 *)
(*   restructure_supplements.py       restructure_supplement_file          *)
(*                                                                         *)
(* A text is a sequence of characters (one-character strings).  A string   *)
(* literal of the source that the program only copies and never inspects   *)
(* (a title, a file name, a metadata sentence) is kept as one element.     *)
(***************************************************************************)
EXTENDS Integers, Sequences, FiniteSets, TLC

VARIABLES
    \* ---- file system seen by split_ingredient_substitutes.main
    inputExists,              \* INPUT_FILE exists under its own name
    inputContent,             \* the text stored in INPUT_FILE
    backupExists,             \* INPUT_FILE + ".bak3" exists
    files,                    \* category files written: <<[name, content]>>
    \* ---- main / parse_sections locals
    pc,                       \* position in main
    exitCode,                 \* process exit status (None while running)
    lines,                    \* content.split('\n')
    idx,                      \* index of the line the for loop reads next
    sections,                 \* dict: sequence of [k, v] in insertion order
    current_section_num,
    current_section_content,
    header_lines,
    in_header,
    header,
    catIdx,                   \* position in SECTION_MAPPING.items()
    \* ---- restructure_supplement_file
    text0,                    \* the text read from input_file
    text,                     \* the local `content`
    step,                     \* statements of restructure_supplement_file executed
    applied,                  \* rewrite rules executed (arbitrary-order run)
    outFile                   \* the text written to output_file

splitVars == <<inputExists, inputContent, backupExists, files, pc, exitCode,
               lines, idx, sections, current_section_num,
               current_section_content, header_lines, in_header, header, catIdx>>
normVars == <<text0, text, step, applied, outFile>>
vars == <<inputExists, inputContent, backupExists, files, pc, exitCode,
          lines, idx, sections, current_section_num,
          current_section_content, header_lines, in_header, header, catIdx,
          text0, text, step, applied, outFile>>

\* ------------------------------------------------------------------ bounds
\* Lines per input document of the splitter
MaxLines == 4
\* Pieces per input text of the normalizer
MaxPieces == 3

\* --------------------------------------------------------------- characters
NL == "\n"
Whitespace == {" ", NL, "\t"}
Digits == {"0", "1", "2", "3", "4", "5", "6", "7", "8", "9"}
LowerAlphabet == <<"a","b","c","d","e","f","g","h","i","j","k","l","m",
                   "n","o","p","q","r","s","t","u","v","w","x","y","z">>
UpperAlphabet == <<"A","B","C","D","E","F","G","H","I","J","K","L","M",
                   "N","O","P","Q","R","S","T","U","V","W","X","Y","Z">>
UpperCase == {UpperAlphabet[i] : i \in 1..26}

\* Python's None for current_section_num (ids parsed by \d+ are >= 0)
None == -1

\* ------------------------------------------------------------ text helpers
SubText(t, a, b) == IF a > b THEN <<>> ELSE SubSeq(t, a, b)

\* text[pos:].startswith(lit), pos 1-based
StartsWithAt(t, pos, lit) ==
    /\ pos + Len(lit) - 1 <= Len(t)
    /\ \A i \in 1..Len(lit) : t[pos + i - 1] = lit[i]

SetMax(S) == CHOOSE m \in S : \A x \in S : x <= m
SetMin(S) == CHOOSE m \in S : \A x \in S : m <= x

\* length of the longest run of characters of class cls starting at pos
RunLen(t, pos, cls) ==
    SetMin({i \in pos..(Len(t) + 1) : i > Len(t) \/ t[i] \notin cls}) - pos

\* str.split('\n'): the pieces from position pos on
RECURSIVE SplitFrom(_, _)
SplitFrom(t, pos) ==
    LET e == SetMin({i \in pos..(Len(t) + 1) : i > Len(t) \/ t[i] = NL})
    IN  IF e > Len(t) THEN <<SubText(t, pos, Len(t))>>
        ELSE <<SubText(t, pos, e - 1)>> \o SplitFrom(t, e + 1)
Split(t) == SplitFrom(t, 1)

\* '\n'.join(parts)
RECURSIVE Join(_)
Join(parts) ==
    IF Len(parts) = 0 THEN <<>>
    ELSE IF Len(parts) = 1 THEN parts[1]
    ELSE parts[1] \o <<NL>> \o Join(Tail(parts))

\* str.strip()
Strip(t) ==
    LET keep == {i \in 1..Len(t) : t[i] \notin Whitespace}
    IN  IF keep = {} THEN <<>> ELSE SubText(t, SetMin(keep), SetMax(keep))

\* int(digits)
DigitVal(c) == CHOOSE n \in 0..9 : <<"0","1","2","3","4","5","6","7","8","9">>[n + 1] = c
RECURSIVE ParseInt(_)
ParseInt(ds) ==
    IF Len(ds) = 0 THEN 0
    ELSE 10 * ParseInt(SubText(ds, 1, Len(ds) - 1)) + DigitVal(ds[Len(ds)])

\* str.upper() on the letters a-z
UpperChar(c) ==
    IF \E i \in 1..26 : LowerAlphabet[i] = c
    THEN UpperAlphabet[CHOOSE i \in 1..26 : LowerAlphabet[i] = c] ELSE c
Upper(t) == [i \in 1..Len(t) |-> UpperChar(t[i])]

\* "=" * n
Rep(c, n) == [i \in 1..n |-> c]

\* ------------------------------------------------------------ Python dict
DictHas(d, k) == \E i \in 1..Len(d) : d[i].k = k
DictGet(d, k) == d[CHOOSE i \in 1..Len(d) : d[i].k = k].v
DictKeys(d) == {d[i].k : i \in 1..Len(d)}
\* d[k] = v : an existing key keeps its place, a new key goes last
DictSet(d, k, v) ==
    IF DictHas(d, k)
    THEN [i \in 1..Len(d) |-> IF d[i].k = k THEN [k |-> k, v |-> v] ELSE d[i]]
    ELSE Append(d, [k |-> k, v |-> v])

\* ------------------------------------------- split_ingredient_substitutes
SepWidth == 80

SecPrefix == <<"#","#"," ","S","E","C","T","I","O","N"," ">>
KetoPrefix == <<"#","#"," ","S","E","C","T","I","O","N",":"," ",
                "K","E","T","O","G","E","N","I","C">>
KetoSection == 18

\* re.match(r'^## SECTION (\d+):', line): the id, or None
SectionMatch(line) ==
    LET p == Len(SecPrefix) + 1
        n == RunLen(line, p, Digits)
    IN  IF /\ StartsWithAt(line, 1, SecPrefix)
           /\ n >= 1
           /\ StartsWithAt(line, p + n, <<":">>)
        THEN ParseInt(SubText(line, p, p + n - 1))
        ELSE None

\* re.match(r'^## SECTION: KETOGENIC', line)
KetoMatch(line) == StartsWithAt(line, 1, KetoPrefix)

SECTION_MAPPING == <<
    [name |-> <<"g","r","a","i","n","s">>,
     file |-> "pcos_ingredient_substitutes_grains.txt",
     sections |-> <<1, 3>>,
     title |-> "PCOS-FRIENDLY INGREDIENT SUBSTITUTES - GRAINS & SWEETENERS"],
    [name |-> <<"p","r","o","t","e","i","n","s">>,
     file |-> "pcos_ingredient_substitutes_proteins.txt",
     sections |-> <<4, 5, 17>>,
     title |-> "PCOS-FRIENDLY INGREDIENT SUBSTITUTES - PROTEINS & DAIRY"],
    [name |-> <<"p","r","o","d","u","c","e">>,
     file |-> "pcos_ingredient_substitutes_produce_and_fats.txt",
     sections |-> <<2, 6>>,
     title |-> "PCOS-FRIENDLY INGREDIENT SUBSTITUTES - PRODUCE & FATS"],
    [name |-> <<"p","r","e","p","a","r","e","d">>,
     file |-> "pcos_ingredient_substitutes_prepared_foods.txt",
     sections |-> <<7, 8, 9, 10, 11>>,
     title |-> "PCOS-FRIENDLY INGREDIENT SUBSTITUTES - PREPARED FOODS & REGIONAL SPECIALTIES"],
    [name |-> <<"s","p","e","c","i","a","l">>,
     file |-> "pcos_ingredient_substitutes_special_diets.txt",
     sections |-> <<12, 13, 14, 15, 16>>,
     title |-> "PCOS-FRIENDLY INGREDIENT SUBSTITUTES - SPECIAL DIETS & GUIDANCE"],
    [name |-> <<"k","e","t","o">>,
     file |-> "pcos_keto_substitutes.txt",
     sections |-> <<18>>,
     title |-> "PCOS-FRIENDLY KETOGENIC DIET SUBSTITUTES"] >>

\* (mutation) the loop walks the index and keeps the listed ids, so the parts
\* come out in document order
RECURSIVE IndexOrderParts(_, _)
IndexOrderParts(ids, secs) ==
    IF Len(secs) = 0 THEN <<>>
    ELSE (IF \E j \in 1..Len(ids) : ids[j] = secs[1].k
          THEN << <<>>, secs[1].v >> ELSE <<>>)
         \o IndexOrderParts(ids, Tail(secs))
SectionPartsIndexOrder(ids, i, secs) == IndexOrderParts(SubText(ids, i, Len(ids)), secs)

\* the for loop of create_file_content: parts appended for the ids from i on
RECURSIVE SectionParts(_, _, _)
SectionParts(ids, i, secs) ==
    IF i > Len(ids) THEN <<>>
    ELSE (IF DictHas(secs, ids[i]) THEN << <<>>, DictGet(secs, ids[i]) >> ELSE <<>>)
         \o SectionParts(ids, i + 1, secs)

create_file_content(category_name, category_info, hdr, secs) ==
    LET content_parts ==
            << <<category_info.title>>,
               <<"Version: 2025-11-11 (Split from main file)">>,
               <<"Purpose: RAG file for LangChain embeddings - ">>
                   \o Upper(category_name) \o <<" category">>,
               \* the source spells the arrow U+2192; the sentence is copied, never read
               <<"Format: Ingredient -> Substitute mapping with regional alternatives and diet-type considerations">>,
               <<"Usage: Query by ingredient name, cooking method, or diet restriction to retrieve PCOS-friendly alternatives">>,
               <<>>,
               Rep("=", SepWidth) >>
            \o SectionParts(category_info.sections, 1, secs)
            \o << <<>>,
                  Rep("=", SepWidth),
                  <<"END OF ">> \o <<category_info.title>>,
                  Rep("=", SepWidth) >>
    IN  Join(content_parts)

\* ---- input documents
H1 == SecPrefix \o <<"1", ":">>
H3 == SecPrefix \o <<"3", ":", " ", "b">>
H18 == SecPrefix \o <<"1", "8", ":">>
HKeto == KetoPrefix \o <<" ", "D">>
LineChoices == {H1, H3, H18, HKeto, <<>>, <<"a">>}

SeqsUpTo(S, n) == UNION {[1..k -> S] : k \in 1..n}
Documents == {Join(ls) : ls \in SeqsUpTo(LineChoices, MaxLines)}

\* ---- main(), lines 145-149: the input file is missing
InputNotFound ==
    /\ pc = "start"
    /\ ~inputExists
    /\ pc' = "done"
    /\ exitCode' = 0
    /\ UNCHANGED <<inputExists, inputContent, backupExists, files, lines, idx,
                   sections, current_section_num, current_section_content,
                   header_lines, in_header, header, catIdx>>
    /\ UNCHANGED normVars

\* ---- main(), lines 151-157, and parse_sections, lines 63-69
ReadInput ==
    /\ pc = "start"
    /\ inputExists
    /\ lines' = Split(inputContent)
    /\ sections' = <<>>
    /\ current_section_num' = None
    /\ current_section_content' = <<>>
    /\ header_lines' = <<>>
    /\ in_header' = TRUE
    /\ idx' = 1
    /\ pc' = "scan"
    /\ UNCHANGED <<inputExists, inputContent, backupExists, files, exitCode,
                   header, catIdx>>
    /\ UNCHANGED normVars

\* sections after the "Save previous section" statement
SavePrevious ==
    IF current_section_num # None
    THEN DictSet(sections, current_section_num, Join(current_section_content))
    ELSE sections

\* ---- parse_sections, lines 76-84
ScanSectionHeader ==
    /\ pc = "scan"
    /\ idx <= Len(lines)
    /\ SectionMatch(lines[idx]) # None
    /\ sections' = SavePrevious
    /\ current_section_num' = SectionMatch(lines[idx])
    /\ current_section_content' = <<lines[idx]>>
    /\ in_header' = FALSE
    /\ idx' = idx + 1
    /\ UNCHANGED <<inputExists, inputContent, backupExists, files, pc, exitCode,
                   lines, header_lines, header, catIdx>>
    /\ UNCHANGED normVars

\* (mutation) the keto branch forgets in_header = False
ScanKetoHeaderStaysInHeader ==
    /\ pc = "scan"
    /\ idx <= Len(lines)
    /\ SectionMatch(lines[idx]) = None
    /\ KetoMatch(lines[idx])
    /\ sections' = SavePrevious
    /\ current_section_num' = KetoSection
    /\ current_section_content' = <<lines[idx]>>
    /\ idx' = idx + 1
    /\ UNCHANGED <<inputExists, inputContent, backupExists, files, pc, exitCode,
                   lines, header_lines, in_header, header, catIdx>>
    /\ UNCHANGED normVars

\* ---- parse_sections, lines 86-94
ScanKetoHeader ==
    /\ pc = "scan"
    /\ idx <= Len(lines)
    /\ SectionMatch(lines[idx]) = None
    /\ KetoMatch(lines[idx])
    /\ sections' = SavePrevious
    /\ current_section_num' = KetoSection
    /\ current_section_content' = <<lines[idx]>>
    /\ in_header' = FALSE
    /\ idx' = idx + 1
    /\ UNCHANGED <<inputExists, inputContent, backupExists, files, pc, exitCode,
                   lines, header_lines, header, catIdx>>
    /\ UNCHANGED normVars

\* ---- parse_sections, lines 96-100
ScanContent ==
    /\ pc = "scan"
    /\ idx <= Len(lines)
    /\ SectionMatch(lines[idx]) = None
    /\ ~KetoMatch(lines[idx])
    /\ header_lines' = IF in_header THEN Append(header_lines, lines[idx])
                       ELSE header_lines
    /\ current_section_content' =
           IF ~in_header /\ current_section_num # None
           THEN Append(current_section_content, lines[idx])
           ELSE current_section_content
    /\ idx' = idx + 1
    /\ UNCHANGED <<inputExists, inputContent, backupExists, files, pc, exitCode,
                   lines, sections, current_section_num, in_header, header, catIdx>>
    /\ UNCHANGED normVars

\* ---- parse_sections, lines 102-109, and main(), lines 157-164
FinishParse ==
    /\ pc = "scan"
    /\ idx > Len(lines)
    /\ sections' = SavePrevious
    /\ header' = Strip(Join(header_lines))
    /\ catIdx' = 1
    /\ pc' = "assemble"
    /\ UNCHANGED <<inputExists, inputContent, backupExists, files, exitCode,
                   lines, idx, current_section_num, current_section_content,
                   header_lines, in_header>>
    /\ UNCHANGED normVars

\* ---- main(), lines 168-185: one iteration of the category loop
WriteCategory ==
    /\ pc = "assemble"
    /\ catIdx <= Len(SECTION_MAPPING)
    /\ LET category_info == SECTION_MAPPING[catIdx]
           file_content == create_file_content(category_info.name, category_info,
                                               header, sections)
       IN  files' = DictSet(files, category_info.file, file_content)
    /\ catIdx' = catIdx + 1
    /\ UNCHANGED <<inputExists, inputContent, backupExists, pc, exitCode,
                   lines, idx, sections, current_section_num,
                   current_section_content, header_lines, in_header, header>>
    /\ UNCHANGED normVars

\* ---- main(), line 175: open(output_file, 'w') raises, the run ends there
WriteFails ==
    /\ pc = "assemble"
    /\ catIdx <= Len(SECTION_MAPPING)
    /\ pc' = "crashed"
    /\ exitCode' = 1
    /\ UNCHANGED <<inputExists, inputContent, backupExists, files,
                   lines, idx, sections, current_section_num,
                   current_section_content, header_lines, in_header, header, catIdx>>
    /\ UNCHANGED normVars

\* (mutation) the rename sits inside the category loop
RenameBackupInLoop ==
    /\ pc = "assemble"
    /\ catIdx > 1
    /\ inputExists' = FALSE
    /\ backupExists' = TRUE
    /\ pc' = "done"
    /\ exitCode' = 0
    /\ UNCHANGED <<inputContent, files, lines, idx, sections, current_section_num,
                   current_section_content, header_lines, in_header, header, catIdx>>
    /\ UNCHANGED normVars

\* ---- main(), lines 187-205: rename the input to its .bak3 backup
RenameBackup ==
    /\ pc = "assemble"
    /\ catIdx > Len(SECTION_MAPPING)
    /\ inputExists' = FALSE
    /\ backupExists' = TRUE
    /\ pc' = "done"
    /\ exitCode' = 0
    /\ UNCHANGED <<inputContent, files, lines, idx, sections, current_section_num,
                   current_section_content, header_lines, in_header, header, catIdx>>
    /\ UNCHANGED normVars

NormIdle ==
    /\ text0 = <<>>
    /\ text = <<>>
    /\ step = 0
    /\ applied = {}
    /\ outFile = <<>>

SplitInit ==
    /\ inputExists \in BOOLEAN
    /\ inputContent \in (IF inputExists THEN Documents ELSE {<<>>})
    /\ backupExists = FALSE
    /\ files = <<>>
    /\ pc = "start"
    /\ exitCode = None
    /\ lines = <<>>
    /\ idx = 0
    /\ sections = <<>>
    /\ current_section_num = None
    /\ current_section_content = <<>>
    /\ header_lines = <<>>
    /\ in_header = TRUE
    /\ header = <<>>
    /\ catIdx = 0
    /\ NormIdle

SplitNext ==
    \/ InputNotFound
    \/ ReadInput
    \/ ScanSectionHeader
    \/ ScanKetoHeader
    \/ ScanContent
    \/ FinishParse
    \/ WriteCategory
    \/ WriteFails
    \/ RenameBackup

Spec == SplitInit /\ [][SplitNext]_vars

\* ------------------------------------------------ restructure_supplements
\* Characters of the two box-drawing rules, U+2550 and U+2500
DoubleRule == "U+2550"
LightRule == "U+2500"

Eq3 == <<"=","=","=">>
CategoryWord == <<"C","A","T","E","G","O","R","Y"," ">>
SupplementWord == <<"S","U","P","P","L","E","M","E","N","T",":">>
PropertyLabels == << <<"C","a","t","e","g","o","r","y">>,
                     <<"E","v","i","d","e","n","c","e"," ","L","e","v","e","l">>,
                     <<"S","u","p","p","l","e","m","e","n","t"," ","T","y","p","e">> >>

\* length of the longest run of characters outside excl starting at pos
RunLenNot(t, pos, excl) ==
    SetMin({i \in pos..(Len(t) + 1) : i > Len(t) \/ t[i] \in excl}) - pos

\* ^ and $ under re.MULTILINE; pos is the position the pattern is at
AtLineStart(t, pos) == pos = 1 \/ t[pos - 1] = NL
AtLineEnd(t, pos) == pos > Len(t) \/ t[pos] = NL

\* The regex engine tries the longest repetition first and backs off: of the
\* ways to match, it takes the one whose repetition counts, read left to
\* right, are greatest.
LexLess(a, b) ==
    \E i \in 1..Len(a) : a[i] < b[i] /\ \A j \in 1..(i - 1) : a[j] = b[j]
Greediest(S) == CHOOSE x \in S : \A y \in S : y = x \/ LexLess(y, x)

NoMatch == [ok |-> FALSE, end |-> 0, repl |-> <<>>]
Found(e, r) == [ok |-> TRUE, end |-> e, repl |-> r]

\* line 13: r'===\s*([^=]+)\s*===' -> r'# \1'   (k, m, j: the three repetitions)
MatchBanner(t, pos) ==
    IF ~StartsWithAt(t, pos, Eq3) THEN NoMatch
    ELSE
      LET p == pos + 3
          ways == UNION { UNION {
                    {<<k, m, j>> : j \in {j \in 0..RunLen(t, p + k + m, Whitespace) :
                                             StartsWithAt(t, p + k + m + j, Eq3)}}
                    : m \in 1..RunLenNot(t, p + k, {"="}) }
                    : k \in 0..RunLen(t, p, Whitespace) }
      IN  IF ways = {} THEN NoMatch
          ELSE LET w == Greediest(ways)
               IN  Found(p + w[1] + w[2] + w[3] + 3,
                         <<"#", " ">> \o SubText(t, p + w[1], p + w[1] + w[2] - 1))

\* line 16: r'^CATEGORY ([IVX]+)[:|-]\s*([^\n]+)' -> r'## CATEGORY \1 - \2'
MatchCategory(t, pos) ==
    IF ~(AtLineStart(t, pos) /\ StartsWithAt(t, pos, CategoryWord)) THEN NoMatch
    ELSE
      LET p == pos + Len(CategoryWord)
          ways == UNION { UNION {
                    {<<r, k, m>> : m \in 1..RunLenNot(t, p + r + 1 + k, {NL})}
                    : k \in 0..RunLen(t, p + r + 1, Whitespace) }
                    : r \in {r \in 1..RunLen(t, p, {"I", "V", "X"}) :
                               p + r <= Len(t) /\ t[p + r] \in {":", "|", "-"}} }
      IN  IF ways = {} THEN NoMatch
          ELSE LET w == Greediest(ways)
                   g2 == p + w[1] + 1 + w[2]
               IN  Found(g2 + w[3],
                         <<"#","#"," ">> \o CategoryWord \o SubText(t, p, p + w[1] - 1)
                           \o <<" ","-"," ">> \o SubText(t, g2, g2 + w[3] - 1))

\* line 19: r'^SUPPLEMENT:\s*([^\n]+)' -> r'### \1'
MatchSupplement(t, pos) ==
    IF ~(AtLineStart(t, pos) /\ StartsWithAt(t, pos, SupplementWord)) THEN NoMatch
    ELSE
      LET p == pos + Len(SupplementWord)
          ways == UNION { {<<k, m>> : m \in 1..RunLenNot(t, p + k, {NL})}
                          : k \in 0..RunLen(t, p, Whitespace) }
      IN  IF ways = {} THEN NoMatch
          ELSE LET w == Greediest(ways)
               IN  Found(p + w[1] + w[2],
                         <<"#","#","#"," ">> \o SubText(t, p + w[1], p + w[1] + w[2] - 1))

\* (mutation) the label pattern without its $
MatchLabelNoEnd(t, pos) ==
    IF ~(AtLineStart(t, pos) /\ t[pos] \in UpperCase) THEN NoMatch
    ELSE
      LET ways == {<<m>> : m \in {m \in 1..RunLen(t, pos + 1, UpperCase \cup Whitespace) :
                                    StartsWithAt(t, pos + 1 + m, <<":">>)}}
      IN  IF ways = {} THEN NoMatch
          ELSE LET w == Greediest(ways)
               IN  Found(pos + 2 + w[1],
                         <<"#","#","#","#"," ">> \o SubText(t, pos, pos + w[1]))

\* line 22: r'^([A-Z][A-Z\s]+):$' -> r'#### \1'
MatchLabel(t, pos) ==
    IF ~(AtLineStart(t, pos) /\ t[pos] \in UpperCase) THEN NoMatch
    ELSE
      LET ways == {<<m>> : m \in {m \in 1..RunLen(t, pos + 1, UpperCase \cup Whitespace) :
                                    /\ StartsWithAt(t, pos + 1 + m, <<":">>)
                                    /\ AtLineEnd(t, pos + 2 + m)}}
      IN  IF ways = {} THEN NoMatch
          ELSE LET w == Greediest(ways)
               IN  Found(pos + 2 + w[1],
                         <<"#","#","#","#"," ">> \o SubText(t, pos, pos + w[1]))

\* line 25: r'^(Category|Evidence Level|Supplement Type):\s*' -> r'**\1:** '
MatchProperty(t, pos) ==
    LET alts == {a \in 1..Len(PropertyLabels) :
                    StartsWithAt(t, pos, PropertyLabels[a] \o <<":">>)}
    IN  IF ~AtLineStart(t, pos) \/ alts = {} THEN NoMatch
        ELSE LET lbl == PropertyLabels[SetMin(alts)]
                 p == pos + Len(lbl) + 1
             IN  Found(p + RunLen(t, p, Whitespace),
                       <<"*","*">> \o lbl \o <<":","*","*"," ">>)

\* a whole line of at least least characters c, deleted
MatchRuleLine(t, pos, c, least) ==
    LET ways == {<<m>> : m \in {m \in least..RunLen(t, pos, {c}) : AtLineEnd(t, pos + m)}}
    IN  IF ~AtLineStart(t, pos) \/ ways = {} THEN NoMatch
        ELSE Found(pos + Greediest(ways)[1], <<>>)
\* line 28: r'^---+$' -> ''
MatchDashes(t, pos) == MatchRuleLine(t, pos, "-", 3)
\* line 29: r'^<U+2550>+$' -> ''
MatchDoubleRule(t, pos) == MatchRuleLine(t, pos, DoubleRule, 1)
\* line 30: r'^<U+2500>+$' -> ''
MatchLightRule(t, pos) == MatchRuleLine(t, pos, LightRule, 1)

\* line 33: r'\n{3,}' -> '\n\n'
MatchBlankLines(t, pos) ==
    IF RunLen(t, pos, {NL}) >= 3 THEN Found(pos + RunLen(t, pos, {NL}), <<NL, NL>>)
    ELSE NoMatch

Match(rule, t, pos) ==
    CASE rule = "banner" -> MatchBanner(t, pos)
      [] rule = "category" -> MatchCategory(t, pos)
      [] rule = "supplement" -> MatchSupplement(t, pos)
      [] rule = "label" -> MatchLabel(t, pos)
      [] rule = "property" -> MatchProperty(t, pos)
      [] rule = "dashes" -> MatchDashes(t, pos)
      [] rule = "double" -> MatchDoubleRule(t, pos)
      [] rule = "light" -> MatchLightRule(t, pos)
      [] rule = "blank" -> MatchBlankLines(t, pos)

\* re.sub: scan left to right, replace each match, resume after it
RECURSIVE SubFrom(_, _, _)
SubFrom(rule, t, pos) ==
    IF pos > Len(t) THEN <<>>
    ELSE LET m == Match(rule, t, pos)
         IN  IF m.ok THEN m.repl \o SubFrom(rule, t, m.end)
             ELSE <<t[pos]>> \o SubFrom(rule, t, pos + 1)
Sub(rule, t) == SubFrom(rule, t, 1)

\* lines 28-30
RemoveRules(t) == Sub("light", Sub("double", Sub("dashes", t)))

\* lines 12-33, the statements in the order of the source
Normalize(t) ==
    Sub("blank",
        RemoveRules(Sub("property", Sub("label", Sub("supplement",
            Sub("category", Sub("banner", t)))))))

\* ---- input texts
Pieces == { Eq3,
            <<"=","=","="," ","T"," ","=","=","=">>,
            <<"C","A","T","E","G","O","R","Y"," ","I",":">>,
            <<" ","B","a","s","i","c","s">>,
            <<NL>>,
            SupplementWord,
            <<"C","a","t","e","g","o","r","y",":">>,
            <<"-","-","-">>,
            <<DoubleRule>>,
            <<LightRule>> }
RECURSIVE Concat(_)
Concat(ps) == IF Len(ps) = 0 THEN <<>> ELSE ps[1] \o Concat(Tail(ps))
NormTexts == {Concat(ps) : ps \in SeqsUpTo(Pieces, MaxPieces)}

SplitIdle ==
    /\ inputExists = FALSE
    /\ inputContent = <<>>
    /\ backupExists = FALSE
    /\ files = <<>>
    /\ pc = "start"
    /\ exitCode = None
    /\ lines = <<>>
    /\ idx = 0
    /\ sections = <<>>
    /\ current_section_num = None
    /\ current_section_content = <<>>
    /\ header_lines = <<>>
    /\ in_header = TRUE
    /\ header = <<>>
    /\ catIdx = 0

\* restructure_supplement_file, one action per statement; step counts the
\* statements executed
\* lines 9-10
ReadText ==
    /\ step = 0
    /\ text' = text0
    /\ step' = 1
    /\ UNCHANGED <<text0, applied, outFile>>
    /\ UNCHANGED splitVars
\* line 13
SubBanner ==
    /\ step = 1
    /\ text' = Sub("banner", text)
    /\ step' = 2
    /\ UNCHANGED <<text0, applied, outFile>>
    /\ UNCHANGED splitVars
\* line 16
SubCategory ==
    /\ step = 2
    /\ text' = Sub("category", text)
    /\ step' = 3
    /\ UNCHANGED <<text0, applied, outFile>>
    /\ UNCHANGED splitVars
\* line 19
SubSupplement ==
    /\ step = 3
    /\ text' = Sub("supplement", text)
    /\ step' = 4
    /\ UNCHANGED <<text0, applied, outFile>>
    /\ UNCHANGED splitVars
\* line 22
SubLabel ==
    /\ step = 4
    /\ text' = Sub("label", text)
    /\ step' = 5
    /\ UNCHANGED <<text0, applied, outFile>>
    /\ UNCHANGED splitVars
\* line 25
SubProperty ==
    /\ step = 5
    /\ text' = Sub("property", text)
    /\ step' = 6
    /\ UNCHANGED <<text0, applied, outFile>>
    /\ UNCHANGED splitVars
\* line 28
SubDashes ==
    /\ step = 6
    /\ text' = Sub("dashes", text)
    /\ step' = 7
    /\ UNCHANGED <<text0, applied, outFile>>
    /\ UNCHANGED splitVars
\* line 29
SubDoubleRule ==
    /\ step = 7
    /\ text' = Sub("double", text)
    /\ step' = 8
    /\ UNCHANGED <<text0, applied, outFile>>
    /\ UNCHANGED splitVars
\* line 30
SubLightRule ==
    /\ step = 8
    /\ text' = Sub("light", text)
    /\ step' = 9
    /\ UNCHANGED <<text0, applied, outFile>>
    /\ UNCHANGED splitVars
\* line 33
SubBlankLines ==
    /\ step = 9
    /\ text' = Sub("blank", text)
    /\ step' = 10
    /\ UNCHANGED <<text0, applied, outFile>>
    /\ UNCHANGED splitVars
\* lines 35-36
WriteOutput ==
    /\ step = 10
    /\ outFile' = text
    /\ step' = 11
    /\ UNCHANGED <<text0, text, applied>>
    /\ UNCHANGED splitVars

NormInit ==
    /\ SplitIdle
    /\ text0 \in NormTexts
    /\ text = <<>>
    /\ step = 0
    /\ applied = {}
    /\ outFile = <<>>

NormNext ==
    \/ ReadText
    \/ SubBanner
    \/ SubCategory
    \/ SubSupplement
    \/ SubLabel
    \/ SubProperty
    \/ SubDashes
    \/ SubDoubleRule
    \/ SubLightRule
    \/ SubBlankLines
    \/ WriteOutput

NormSpec == NormInit /\ [][NormNext]_vars

\* ---- the rewrite statements of lines 13-30 executed in an arbitrary order,
\* ---- each once, followed by the blank-line statement of line 33
OrderedRules == {"banner", "category", "supplement", "label", "property", "rules"}
\* line 13
AnyBanner ==
    /\ "banner" \notin applied
    /\ "blank" \notin applied
    /\ text' = Sub("banner", text)
    /\ applied' = applied \cup {"banner"}
    /\ UNCHANGED <<text0, step, outFile>>
    /\ UNCHANGED splitVars
\* line 16
AnyCategory ==
    /\ "category" \notin applied
    /\ "blank" \notin applied
    /\ text' = Sub("category", text)
    /\ applied' = applied \cup {"category"}
    /\ UNCHANGED <<text0, step, outFile>>
    /\ UNCHANGED splitVars
\* line 19
AnySupplement ==
    /\ "supplement" \notin applied
    /\ "blank" \notin applied
    /\ text' = Sub("supplement", text)
    /\ applied' = applied \cup {"supplement"}
    /\ UNCHANGED <<text0, step, outFile>>
    /\ UNCHANGED splitVars
\* line 22
AnyLabel ==
    /\ "label" \notin applied
    /\ "blank" \notin applied
    /\ text' = Sub("label", text)
    /\ applied' = applied \cup {"label"}
    /\ UNCHANGED <<text0, step, outFile>>
    /\ UNCHANGED splitVars
\* line 25
AnyProperty ==
    /\ "property" \notin applied
    /\ "blank" \notin applied
    /\ text' = Sub("property", text)
    /\ applied' = applied \cup {"property"}
    /\ UNCHANGED <<text0, step, outFile>>
    /\ UNCHANGED splitVars
\* lines 28-30
AnyRemoveRules ==
    /\ "rules" \notin applied
    /\ "blank" \notin applied
    /\ text' = RemoveRules(text)
    /\ applied' = applied \cup {"rules"}
    /\ UNCHANGED <<text0, step, outFile>>
    /\ UNCHANGED splitVars
\* line 33
LastBlankLines ==
    /\ applied = OrderedRules
    /\ text' = Sub("blank", text)
    /\ applied' = applied \cup {"blank"}
    /\ UNCHANGED <<text0, step, outFile>>
    /\ UNCHANGED splitVars

OrderInit ==
    /\ SplitIdle
    /\ text0 \in NormTexts
    /\ text = text0
    /\ step = 0
    /\ applied = {}
    /\ outFile = <<>>

OrderNext ==
    \/ AnyBanner
    \/ AnyCategory
    \/ AnySupplement
    \/ AnyLabel
    \/ AnyProperty
    \/ AnyRemoveRules
    \/ LastBlankLines

OrderSpec == OrderInit /\ [][OrderNext]_vars

\* ------------------------------------------------------------------------
\* Properties of the splitter
\* ------------------------------------------------------------------------
\* parse_sections has returned
Parsed == pc \in {"assemble", "done", "crashed"} /\ (pc = "done" => backupExists)

\* number of lines the for loop has consumed
Consumed == IF pc = "scan" THEN idx - 1 ELSE Len(lines)
IsHeaderLine(i) == SectionMatch(lines[i]) # None \/ KetoMatch(lines[i])
HeaderId(i) ==
    IF SectionMatch(lines[i]) # None THEN SectionMatch(lines[i]) ELSE KetoSection
HeaderPositions(n) == {i \in 1..n : IsHeaderLine(i)}
\* first header line after position p among the first n lines, or n + 1
NextHeader(p, n) == SetMin({q \in (p + 1)..n : IsHeaderLine(q)} \cup {n + 1})
\* the header line at p with the lines after it up to the next header
Extent(p, n) == Join(SubText(lines, p, NextHeader(p, n) - 1))
SectionTexts(d) == [i \in 1..Len(d) |-> d[i].v]

Reassembled ==
    Join((IF header = <<>> THEN <<>> ELSE <<header>>) \o SectionTexts(sections))
\* C1 (round trip): once parse_sections has returned, the preamble followed
\* by the section texts in insertion order, joined by line breaks, is the
\* input document.
Cex_C1_RoundTrip == Parsed => Reassembled = inputContent

\* C2 (count): once parse_sections has returned, the index has as many
\* entries as the document has recognized header lines.
Cex_C2_Count ==
    Parsed => Len(sections) = Cardinality(HeaderPositions(Len(lines)))

\* C3 (no silent overwrite): no step replaces the text stored under an id
\* that is already in the index by a different text.
Cex_C3_NoOverwrite ==
    [][\A k \in DictKeys(sections) :
          DictHas(sections', k) => DictGet(sections', k) = DictGet(sections, k)]_vars

\* C4 (missing section surfaced): no category file is written for a category
\* one of whose section ids is absent from the index.
Cex_C4_MissingSurfaced ==
    \A c \in 1..Len(SECTION_MAPPING) :
        DictHas(files, SECTION_MAPPING[c].file) =>
            \A j \in 1..Len(SECTION_MAPPING[c].sections) :
                DictHas(sections, SECTION_MAPPING[c].sections[j])

RECURSIVE BodyLines(_, _)
BodyLines(ids, secs) ==
    IF Len(ids) = 0 THEN <<>>
    ELSE << <<>> >> \o Split(DictGet(secs, ids[1])) \o BodyLines(Tail(ids), secs)
IsRule80(l) == Len(l) = 80 /\ \A i \in 1..Len(l) : l[i] = "="
AssembledInOrder(text_, info, secs) ==
    LET out == Split(text_)
        body == BodyLines(info.sections, secs)
        n == Len(out)
    IN  /\ n = 7 + Len(body) + 4
        /\ out[1] = <<info.title>>
        /\ out[6] = <<>>
        /\ IsRule80(out[7])
        /\ SubText(out, 8, n - 4) = body
        /\ out[n - 3] = <<>>
        /\ IsRule80(out[n - 2])
        /\ out[n - 1] = <<"END OF ", info.title>>
        /\ IsRule80(out[n])
\* category specs: those of SECTION_MAPPING and every ordering of up to
\* three of the ids the documents can announce
ProbeIds == {1, 3, 18}
ProbeOrders ==
    {ids \in SeqsUpTo(ProbeIds, 3) :
        \A i, j \in 1..Len(ids) : i # j => ids[i] # ids[j]}
CategorySpecs ==
    {SECTION_MAPPING[c] : c \in 1..Len(SECTION_MAPPING)}
    \cup {[SECTION_MAPPING[1] EXCEPT !.sections = ids] : ids \in ProbeOrders}
AllPresent(info, secs) ==
    \A j \in 1..Len(info.sections) : DictHas(secs, info.sections[j])
\* C5 (declared order): for a category whose ids are all in the index, the
\* lines of the assembled text are the seven lines of the title block ending
\* in the 80-character rule, then for each id in declared order one blank
\* line and the lines of that section, then a blank line, the rule, the
\* END OF line and the rule.
\* Stated for every category spec when parse_sections has just returned (the
\* index does not change afterwards) and for each category file main writes.
Thm_C5_DeclaredOrder ==
    /\ (pc = "assemble" /\ catIdx = 1) =>
          \A info \in CategorySpecs :
              AllPresent(info, sections) =>
                  AssembledInOrder(create_file_content(info.name, info, header, sections),
                                   info, sections)
    /\ (pc = "assemble" /\ catIdx > 1) =>
          (AllPresent(SECTION_MAPPING[catIdx - 1], sections) =>
              /\ files[catIdx - 1].k = SECTION_MAPPING[catIdx - 1].file
              /\ AssembledInOrder(files[catIdx - 1].v, SECTION_MAPPING[catIdx - 1],
                                  sections))
\* the document announces section 3 before section 1, both with different
\* texts, and the grains file (sections [1, 3]) has been written
Wit_C5_Reordered ==
    /\ pc = "done"
    /\ Len(sections) = 2
    /\ sections[1].k = 3
    /\ sections[2].k = 1
    /\ Len(Split(sections[1].v)) = 2
    /\ DictHas(files, SECTION_MAPPING[1].file)

\* C8 (input not found): a run that ends without having renamed the input
\* (the input was missing) ends with a non-zero exit status and has written
\* no category file.
Cex_C8_InputNotFound ==
    (pc = "done" /\ ~backupExists) =>
        (exitCode # 0 /\ files = <<>> /\ ~backupExists)

Closed(n) ==
    IF pc = "scan" THEN HeaderPositions(n) \ {SetMax(HeaderPositions(n))}
    ELSE HeaderPositions(n)
RECURSIVE LineTotal(_)
LineTotal(ts) ==
    IF Len(ts) = 0 THEN 0 ELSE Len(Split(ts[1])) + LineTotal(Tail(ts))
\* C9 (section extent): during the scan and after it, in_header holds exactly
\* while no header has been read; the preamble is the lines before the first
\* header; the open section is the last header line with the lines after it;
\* every stored text is a header line announcing its id followed by the lines
\* up to the next header, for the last closed header of that id; the stored
\* sections and the open one never hold more lines than were read after the
\* first header.
Thm_C9_SectionExtent ==
    (pc = "scan" \/ Parsed) =>
        LET n == Consumed
            hp == HeaderPositions(n)
            first == SetMin(hp \cup {n + 1})
        IN  /\ in_header <=> (current_section_num = None)
            /\ in_header <=> (hp = {})
            /\ header_lines = SubText(lines, 1, first - 1)
            /\ hp # {} =>
                  /\ current_section_num = HeaderId(SetMax(hp))
                  /\ current_section_content = SubText(lines, SetMax(hp), n)
                  /\ DictKeys(sections) = {HeaderId(p) : p \in Closed(n)}
            /\ hp = {} => sections = <<>>
            /\ \A i \in 1..Len(sections) :
                  LET same == {p \in Closed(n) : HeaderId(p) = sections[i].k}
                  IN  /\ same # {}
                      /\ sections[i].v = Extent(SetMax(same), n)
                      /\ StartsWithAt(sections[i].v, 1, lines[SetMax(same)])
            /\ LineTotal(SectionTexts(sections))
                 + (IF pc = "scan" THEN Len(current_section_content) ELSE 0)
                 <= n - Len(header_lines)
\* a preamble line, then two sections, the first stored with a content line
Wit_C9_TwoSections ==
    /\ Parsed
    /\ Len(sections) = 2
    /\ Len(Split(sections[1].v)) >= 2
    /\ Len(header_lines) >= 1

\* C10 (backup ordering): category files are written one after another in
\* mapping order; the backup exists only when every category of
\* SECTION_MAPPING has its file; a run stopped by a failed write leaves the
\* input under its own name and no backup.
Thm_C10_BackupAfterAllWrites ==
    /\ \A i \in 1..Len(files) : files[i].k = SECTION_MAPPING[i].file
    /\ pc = "assemble" => Len(files) = catIdx - 1
    /\ backupExists =>
          /\ \A c \in 1..Len(SECTION_MAPPING) : DictHas(files, SECTION_MAPPING[c].file)
          /\ ~inputExists
    /\ (pc \in {"scan", "assemble", "crashed"}) => (inputExists /\ ~backupExists)
\* the run completed: six files written, then the rename
Wit_C10_Renamed ==
    pc = "done" /\ backupExists /\ Len(files) = Len(SECTION_MAPPING) /\ ~inputExists

\* ------------------------------------------------------------------------
\* Properties of the normalizer
\* ------------------------------------------------------------------------
\* C6 (idempotence): the text written by restructure_supplement_file is left
\* unchanged by a second application of its rewrite sequence.
Cex_C6_Idempotent == step = 11 => Normalize(outFile) = outFile

SingleLine(t) == \A i \in 1..Len(t) : t[i] # NL
====
